---------------------------- MODULE Spec2Model ----------------------------
(***************************************************************************)
(* doltpy: the Python wrapper around the dolt command line binary          *)
(* (src/doltpy/core/dolt.py).  The wrapper builds an argument list, runs    *)
(* the binary as a subprocess, turns a non-zero exit code into a           *)
(* DoltException and parses the text the binary prints.                    *)
(*                                                                         *)
(* The binary itself is not part of the source tree.  Its repository       *)
(* state (commits, refs, working and staged roots) and the effect of each  *)
(* command are modelled from sections 3 and 4 of the specification; the    *)
(* definitions named Dolt_* and Engine* are that model.  Everything else   *)
(* is translated from dolt.py.                                             *)
(***************************************************************************)
EXTENDS Integers, Sequences, FiniteSets, TLC

(***************************************************************************)
(* Bounds of the model.                                                    *)
(***************************************************************************)
MaxCommits == 2
MaxHash == 2
MaxOrphans == 1
MaxLogCommits == 4

(***************************************************************************)
(* The names used by the callers.                                          *)
(***************************************************************************)
TableOrder == <<"cleaned", "t">>
Tables == {TableOrder[i] : i \in 1..Len(TableOrder)}
Branches == {"master", "exp"}
Hashes == 0..MaxHash
Roots == [Tables -> Hashes]
EmptyRoot == [t \in Tables |-> 0]

VARIABLES
    commits,   \* the commit graph: commit id -> [root, parents]
    refs,      \* branch name -> commit id, 0 when the branch does not exist
    head,      \* the checked-out branch
    working,   \* the working root
    staged,    \* the staged root
    server,    \* Dolt.server: "None" or "Popen"
    orphans,   \* server processes started and neither killed nor held
    fs,        \* other paths of the file system: "absent", "dir" or "repo"
    last       \* the last call on the Dolt object and its outcome

vars == <<commits, refs, head, working, staged, server, orphans, fs, last>>

(***************************************************************************)
(* Python string operations used by the wrapper.                           *)
(***************************************************************************)
StartsWith(s, p) ==
    /\ Len(s) >= Len(p)
    /\ SubSeq(s, 1, Len(p)) = p

Contains(s, p) ==
    \E i \in 1..(Len(s) - Len(p) + 1) : SubSeq(s, i, i + Len(p) - 1) = p

IsSpace(c) == c \in {" ", "\t", "\n"}

RECURSIVE LStrip(_)
LStrip(s) ==
    IF Len(s) > 0 /\ IsSpace(SubSeq(s, 1, 1))
    THEN LStrip(SubSeq(s, 2, Len(s)))
    ELSE s

\* position of the first occurrence of the one-character string c, 0 if none
FindChar(s, c) ==
    IF \E i \in 1..Len(s) : SubSeq(s, i, i) = c
    THEN CHOOSE i \in 1..Len(s) :
            /\ SubSeq(s, i, i) = c
            /\ \A j \in 1..(i - 1) : SubSeq(s, j, j) # c
    ELSE 0

RECURSIVE Split(_, _)
Split(s, c) ==
    LET i == FindChar(s, c)
    IN  IF i = 0
        THEN <<s>>
        ELSE <<SubSeq(s, 1, i - 1)>> \o Split(SubSeq(s, i + 1, Len(s)), c)

\* str.split(c, maxsplit=1)
Split1(s, c) ==
    LET i == FindChar(s, c)
    IN  IF i = 0
        THEN <<s>>
        ELSE <<SubSeq(s, 1, i - 1), SubSeq(s, i + 1, Len(s))>>

RECURSIVE Join(_, _)
Join(ss, sep) ==
    IF Len(ss) = 0 THEN ""
    ELSE IF Len(ss) = 1 THEN ss[1]
    ELSE ss[1] \o sep \o Join(Tail(ss), sep)


(***************************************************************************)
(* The repository the binary keeps on disk, modelled from sections 3 and 4 *)
(* of the specification.  A commit's id is its position in the graph; ids  *)
(* grow with time, so a parent's id is smaller than its child's.           *)
(***************************************************************************)
Repo == [commits |-> commits, refs |-> refs, head |-> head,
         working |-> working, staged |-> staged]

TipId(R) == R.refs[R.head]
TipRoot(R) == R.commits[TipId(R)].root

CommitName(c) == "c" \o ToString(c)

\* a branch name or a commit hash, 0 when it names nothing (NotFound)
ResolveRef(R, s) ==
    IF s \in DOMAIN R.refs /\ R.refs[s] # 0
    THEN R.refs[s]
    ELSE IF \E c \in 1..Len(R.commits) : CommitName(c) = s
         THEN CHOOSE c \in 1..Len(R.commits) : CommitName(c) = s
         ELSE 0

Range(f) == {f[i] : i \in DOMAIN f}

RECURSIVE Ancestors(_, _)
Ancestors(cs, c) ==
    {c} \cup UNION {Ancestors(cs, p) : p \in Range(cs[c].parents)}

RECURSIVE SortDesc(_)
SortDesc(S) ==
    IF S = {} THEN <<>>
    ELSE LET m == CHOOSE x \in S : \A y \in S : y <= x
         IN  <<m>> \o SortDesc(S \ {m})

Ok(R, out) == [repo |-> R, exit |-> 0, out |-> out, err |-> ""]
Fail(R) == [repo |-> R, exit |-> 1, out |-> "", err |-> "error\n"]

(***************************************************************************)
(* status (4.4): a table is new when absent at the tip, modified when its  *)
(* hash differs; staged changes are staged against tip, unstaged ones      *)
(* working against staged.  The text is what the wrapper's parser matches  *)
(* on: section headers, hint lines, one line per table.                    *)
(***************************************************************************)
StagedTables(R) == SelectSeq(TableOrder, LAMBDA t : R.staged[t] # TipRoot(R)[t])
UnstagedTables(R) ==
    SelectSeq(TableOrder, LAMBDA t : R.working[t] # R.staged[t] /\ R.staged[t] # 0)
UntrackedTables(R) ==
    SelectSeq(TableOrder, LAMBDA t : R.working[t] # R.staged[t] /\ R.staged[t] = 0)

IsClean(R) == R.working = R.staged /\ R.staged = TipRoot(R)

StatusLine(kind, t) ==
    IF kind = "new" THEN "\tnew table:      " \o t \o "\n"
    ELSE IF kind = "deleted" THEN "\tdeleted:        " \o t \o "\n"
    ELSE "\tmodified:       " \o t \o "\n"

RECURSIVE StatusLines(_, _, _, _)
StatusLines(ts, new, old, i) ==
    IF i > Len(ts) THEN ""
    ELSE LET t == ts[i]
             kind == IF old[t] = 0 THEN "new"
                     ELSE IF new[t] = 0 THEN "deleted" ELSE "modified"
         IN  StatusLine(kind, t) \o StatusLines(ts, new, old, i + 1)

EngineStatus(R) ==
    LET st == StagedTables(R)
        un == UnstagedTables(R)
        ut == UntrackedTables(R)
    IN  "On branch " \o R.head \o "\n" \o
        (IF IsClean(R) THEN "nothing to commit, working tree clean\n"
         ELSE (IF Len(st) > 0
               THEN "Changes to be committed:\n"
                    \o "  (use \"dolt reset <table>...\" to unstage)\n"
                    \o StatusLines(st, R.staged, TipRoot(R), 1)
               ELSE "")
              \o (IF Len(un) > 0
                  THEN "Changes not staged for commit:\n"
                       \o "  (use \"dolt add <table>\" to update what will be committed)\n"
                       \o StatusLines(un, R.working, R.staged, 1)
                  ELSE "")
              \o (IF Len(ut) > 0
                  THEN "Untracked files:\n"
                       \o "  (use \"dolt add <table>\" to include in what will be committed)\n"
                       \o StatusLines(ut, R.working, R.staged, 1)
                  ELSE ""))

Dolt_status(R) == Ok(R, EngineStatus(R))

(***************************************************************************)
(* add, reset and commit (4.4).  Every command validates before it writes: *)
(* a failing command leaves the repository as it was.                      *)
(***************************************************************************)
Dolt_add(R, ts) ==
    IF \E i \in 1..Len(ts) : ts[i] \notin Tables \/ R.working[ts[i]] = 0
    THEN Fail(R)
    ELSE Ok([R EXCEPT !.staged =
                [t \in Tables |-> IF t \in Range(ts) THEN R.working[t] ELSE @[t]]],
            "")

\* soft is the default mode of the command
Dolt_reset(R, hard, soft, ts) ==
    IF (hard /\ soft) \/ \E i \in 1..Len(ts) : ts[i] \notin Tables
    THEN Fail(R)
    ELSE LET tip == TipRoot(R)
         IN  Ok([R EXCEPT
                    !.staged = [t \in Tables |-> IF t \in Range(ts) THEN tip[t] ELSE @[t]],
                    !.working = [t \in Tables |->
                                    IF hard /\ t \in Range(ts) THEN tip[t] ELSE @[t]]],
                "")

\* The new commit's root is the staged root; the branch ref moves to it.
\* Staged then equals the new tip ("reinitializes working/staged to the new
\* tip"); edits that were not staged stay in working, uncommitted changes
\* being never silently discarded (section 7).
Dolt_commit(R, allowEmpty) ==
    IF R.staged = TipRoot(R) /\ ~allowEmpty
    THEN Fail(R)
    ELSE LET c == [root |-> R.staged, parents |-> <<TipId(R)>>]
         IN  Ok([R EXCEPT !.commits = Append(@, c),
                          !.refs = [@ EXCEPT ![R.head] = Len(R.commits) + 1]],
                "")

(***************************************************************************)
(* branch and checkout (4.5).                                              *)
(***************************************************************************)
Dolt_branch(R, name, start, force) ==
    LET at == IF start = "" THEN TipId(R) ELSE ResolveRef(R, start)
    IN  IF name \notin Branches \/ at = 0 \/ (R.refs[name] # 0 /\ ~force)
        THEN Fail(R)
        ELSE Ok([R EXCEPT !.refs = [@ EXCEPT ![name] = at]], "")

\* delete fails on the checked-out branch and, without force, on a branch
\* whose tip no other ref reaches
Dolt_branch_delete(R, name, force) ==
    IF name \notin Branches \/ R.refs[name] = 0 \/ name = R.head
       \/ (~force /\ ~\E b \in Branches :
              b # name /\ R.refs[b] # 0
              /\ R.refs[name] \in Ancestors(R.commits, R.refs[b]))
    THEN Fail(R)
    ELSE Ok([R EXCEPT !.refs = [@ EXCEPT ![name] = 0]], "")

\* a table has an uncommitted change when working or staged differs from tip
Dirty(R, t) == R.working[t] # TipRoot(R)[t] \/ R.staged[t] # TipRoot(R)[t]

\* checkout is blocked by an uncommitted change to a table that differs
\* between the two tips.  On success the tables that differ take the
\* destination's value; changes to the other tables are carried over,
\* uncommitted changes being never silently discarded (section 7).
Dolt_checkout(R, name) ==
    IF name \notin Branches \/ R.refs[name] = 0
    THEN Fail(R)
    ELSE LET tip == TipRoot(R)
             dest == R.commits[R.refs[name]].root
         IN  IF \E t \in Tables : Dirty(R, t) /\ dest[t] # tip[t]
             THEN Fail(R)
             ELSE Ok([R EXCEPT
                        !.head = name,
                        !.working = [t \in Tables |->
                                        IF dest[t] # tip[t] THEN dest[t] ELSE @[t]],
                        !.staged = [t \in Tables |->
                                        IF dest[t] # tip[t] THEN dest[t] ELSE @[t]]],
                     "")

\* checkout -b creates the branch at the start point, then checks it out
Dolt_checkout_b(R, name, start) ==
    LET made == Dolt_branch(R, name, start, FALSE)
    IN  IF made.exit # 0 THEN Fail(R)
        ELSE LET out == Dolt_checkout(made.repo, name)
             IN  IF out.exit # 0 THEN Fail(R) ELSE out

\* checkout of tables drops their unstaged edits from working
Dolt_checkout_tables(R, ts) ==
    IF \E i \in 1..Len(ts) : ts[i] \notin Tables
    THEN Fail(R)
    ELSE Ok([R EXCEPT !.working = [t \in Tables |->
                IF t \in Range(ts) THEN R.staged[t] ELSE @[t]]], "")

(***************************************************************************)
(* log (4.3): the commits reachable from the tip, newest first, so that no *)
(* parent is printed before its child; a visited set keeps a commit that   *)
(* two paths reach from being printed twice.  An entry of the text is the  *)
(* lines Dolt.log looks for: commit, Author, Date, then a blank line and   *)
(* the indented message.                                                   *)
(***************************************************************************)
LogOrder(R) == SortDesc(Ancestors(R.commits, TipId(R)))

LogEntry(R, c) ==
    "commit " \o CommitName(c) \o "\n"
    \o "Author: a" \o ToString(c) \o " <a@b>\n"
    \o "Date:   " \o ToString(c) \o "\n"
    \o "\n"
    \o "\tmessage\n"
    \o "\n"

RECURSIVE LogText(_, _)
LogText(R, cs) ==
    IF Len(cs) = 0 THEN ""
    ELSE LogEntry(R, cs[1]) \o LogText(R, Tail(cs))

Dolt_log(R) == Ok(R, LogText(R, LogOrder(R)))

(***************************************************************************)
(* branch --list --verbose: one line per branch, the checked-out one       *)
(* starred, each with the commit it points to.                             *)
(***************************************************************************)
BranchOrder == <<"exp", "master">>

RECURSIVE BranchLines(_, _)
BranchLines(R, i) ==
    IF i > Len(BranchOrder) THEN ""
    ELSE LET b == BranchOrder[i]
         IN  (IF R.refs[b] = 0 THEN ""
              ELSE (IF b = R.head THEN "* " ELSE "  ")
                   \o b \o "  \t" \o CommitName(R.refs[b]) \o " message\n")
             \o BranchLines(R, i + 1)

Dolt_branch_list(R) == Ok(R, BranchLines(R, 1))

(***************************************************************************)
(* table import: the table's rows in the working root become those of the *)
(* file.  A file is named after the hash of the rows it holds.             *)
(***************************************************************************)
FileName(h) == "f" \o ToString(h)
Files == {FileName(h) : h \in 1..MaxHash}
FileHash(f) == CHOOSE h \in 1..MaxHash : FileName(h) = f

Dolt_table_import(R, mode, force, t, f) ==
    IF t \notin Tables \/ f \notin Files
       \/ (mode = "--create" /\ R.working[t] # 0 /\ ~force)
       \/ (mode = "--update" /\ R.working[t] = 0)
    THEN Fail(R)
    ELSE Ok([R EXCEPT !.working = [@ EXCEPT ![t] = FileHash(f)]], "")

(***************************************************************************)
(* The binary's command line.  argv[1] is the program name.  nd is the     *)
(* exit code of a command the specification says nothing about (diff,      *)
(* config, remote, schema import): such a command leaves the commit graph  *)
(* and the roots alone.                                                    *)
(***************************************************************************)
IsFlag(a) == StartsWith(a, "-")
Positional(args) == SelectSeq(args, LAMBDA a : ~IsFlag(a))
Opaque(R, nd) == IF nd = 0 THEN Ok(R, "") ELSE Fail(R)

DoltBranchCmd(rest, R) ==
    LET pos == Positional(rest)
        force == "--force" \in Range(rest)
    IN  IF "--list" \in Range(rest) THEN Dolt_branch_list(R)
        ELSE IF "--delete" \in Range(rest)
        THEN IF Len(pos) = 1 THEN Dolt_branch_delete(R, pos[1], force) ELSE Fail(R)
        ELSE IF "--copy" \in Range(rest)
        THEN IF Len(pos) = 1 THEN Dolt_branch(R, pos[1], "", force)
             ELSE IF Len(pos) = 2 THEN Dolt_branch(R, pos[2], pos[1], force)
             ELSE Fail(R)
        ELSE IF "--move" \in Range(rest) THEN Fail(R)
        ELSE IF Len(pos) = 1 THEN Dolt_branch(R, pos[1], "", force)
        ELSE IF Len(pos) = 2 THEN Dolt_branch(R, pos[1], pos[2], force)
        ELSE Fail(R)

DoltCheckoutCmd(rest, R) ==
    LET pos == Positional(rest)
    IN  IF Len(rest) > 0 /\ rest[1] = "-b"
        THEN IF Len(pos) = 1 THEN Dolt_checkout_b(R, pos[1], "")
             ELSE IF Len(pos) = 2 THEN Dolt_checkout_b(R, pos[1], pos[2])
             ELSE Fail(R)
        ELSE IF Len(pos) = 0 THEN Fail(R)
        ELSE IF Len(pos) = 1 /\ pos[1] \in Branches /\ R.refs[pos[1]] # 0
        THEN Dolt_checkout(R, pos[1])
        ELSE Dolt_checkout_tables(R, pos)

DoltImportCmd(rest, R) ==
    LET n == Len(rest)
        modes == SelectSeq(rest, LAMBDA a : a \in {"--create", "--update", "--replace"})
    IN  IF n < 3 \/ Len(modes) # 1 THEN Fail(R)
        ELSE Dolt_table_import(R, modes[1], "--force" \in Range(rest),
                               rest[n - 1], rest[n])

DoltBinary(argv, R, nd) ==
    LET cmd == IF Len(argv) > 1 THEN argv[2] ELSE ""
        rest == IF Len(argv) > 2 THEN SubSeq(argv, 3, Len(argv)) ELSE <<>>
    IN  IF cmd = "status" THEN Dolt_status(R)
        ELSE IF cmd = "add" THEN Dolt_add(R, rest)
        ELSE IF cmd = "reset"
        THEN Dolt_reset(R, "--hard" \in Range(rest), "--soft" \in Range(rest),
                        Positional(rest))
        ELSE IF cmd = "commit"
        THEN IF Len(rest) >= 2 /\ rest[1] = "-m"
             THEN Dolt_commit(R, "--allow-empty" \in Range(rest))
             ELSE Fail(R)
        ELSE IF cmd = "branch" THEN DoltBranchCmd(rest, R)
        ELSE IF cmd = "checkout" THEN DoltCheckoutCmd(rest, R)
        ELSE IF cmd = "log" THEN Dolt_log(R)
        ELSE IF cmd = "table" /\ Len(rest) > 0 /\ rest[1] = "import"
        THEN DoltImportCmd(Tail(rest), R)
        ELSE Opaque(R, nd)

(***************************************************************************)
(* The wrapper.  A call works on the object O: the repository directory    *)
(* the binary runs in, the server handle, the server processes left        *)
(* running without a handle, the commands run so far in this call, the     *)
(* connection attempts made, the attempt from which the restarted server   *)
(* accepts connections, and the process events of the call.  A call's      *)
(* outcome is the object after it, the exception raised ("None" when it    *)
(* returns) and the value returned.                                        *)
(***************************************************************************)
Tries == 10

NoInfo == <<>>
Raise(O, exc, info) == [o |-> O, exc |-> exc, info |-> info, ret |-> <<>>]
Return(O, ret) == [o |-> O, exc |-> "None", info |-> NoInfo, ret |-> ret]

Obj == [repo |-> Repo, server |-> server, orphans |-> orphans,
        ran |-> <<>>, exits |-> <<>>, attempts |-> 0, up |-> 0, events |-> <<>>]

\* what a call does to processes, in order: each event with the server handle
\* the object holds once it has happened
Event(O, name) == [O EXCEPT !.events = Append(@, <<name, O.server>>)]

\* _execute with the test of the exit code lost: it always returns
_execute_unchecked(args, R, nd) ==
    LET communicate(_args, proc) ==
            [repo |-> proc.repo, exit |-> proc.exit, exc |-> "None",
             info |-> NoInfo, ret |-> proc.out]
    IN  communicate(<<"dolt">> \o args, DoltBinary(<<"dolt">> \o args, R, nd))

\* _execute: run the binary, raise DoltException on a non-zero exit code,
\* return the decoded standard output otherwise
_execute(args, R, nd) ==
    LET communicate(_args, proc) ==
            IF proc.exit # 0
            THEN [repo |-> proc.repo, exit |-> proc.exit, exc |-> "DoltException",
                  info |-> [exec_args |-> _args, stdout |-> proc.out,
                            stderr |-> proc.err, exitcode |-> proc.exit],
                  ret |-> ""]
            ELSE [repo |-> proc.repo, exit |-> proc.exit, exc |-> "None",
                  info |-> NoInfo, ret |-> proc.out]
    IN  communicate(<<"dolt">> \o args, DoltBinary(<<"dolt">> \o args, R, nd))

DEFAULT_HOST == "127.0.0.1"
DEFAULT_PORT == 3306

\* sqlalchemy's create_engine: builds the engine from the URL, connects to
\* nothing
create_engine(user, host, port) == [user |-> user, host |-> host, port |-> port]

\* Dolt.get_engine: host "" and port 0 stand for None
get_engine(O, host, port) ==
    Return(O, create_engine("root",
                            IF host # "" THEN host ELSE DEFAULT_HOST,
                            IF port # 0 THEN port ELSE DEFAULT_PORT))

\* sql_server_stop that drops the handle without killing the process
sql_server_stop_unkilled(O) ==
    IF O.server = "None" THEN O
    ELSE [O EXCEPT !.server = "None", !.orphans = @ + 1]

\* Dolt.sql_server_stop
sql_server_stop(O) ==
    IF O.server = "None" THEN O ELSE Event([O EXCEPT !.server = "None"], "kill")

\* Dolt.sql_server: start_server only warns when a server is already held;
\* the process it replaces in self.server keeps running
sql_server(O) ==
    Event([O EXCEPT !.server = "Popen",
                    !.orphans = IF O.server # "None" THEN @ + 1 ELSE @], "Popen")

\* retry that gives up at the first failure
retry_once(conn, tries, made) == [ok |-> conn = made + 1, made |-> made + 1]

\* @retry(exceptions=Exception, delay=2, tries=10): the call is made again
\* after a failure until it succeeds or no try is left; the attempt numbered
\* conn is the first to succeed
RECURSIVE retry(_, _, _)
retry(conn, tries, made) ==
    IF made + 1 = conn THEN [ok |-> TRUE, made |-> made + 1]
    ELSE IF tries - 1 = 0 THEN [ok |-> FALSE, made |-> made + 1]
    ELSE retry(conn, tries - 1, made + 1)

\* verify_connection, decorated: the outcome on the object that holds the
\* restarted server
verify_connection(O, conn, output) ==
    LET attempted(r) ==
            IF r.ok
            THEN Return(Event([O EXCEPT !.attempts = r.made, !.up = conn],
                              "verify_connection"), output)
            ELSE Raise(Event([O EXCEPT !.attempts = r.made, !.up = conn],
                             "verify_connection"), "ConnectionError", NoInfo)
    IN  attempted(retry(conn, Tries, 0))

\* execute that returns the output as one string, not split into lines
execute_unsplit(O, args, restart_server, nd, conn) ==
    LET was_serving == restart_server /\ O.server # "None"
        finish(O2, run, output) ==
            IF run.exc # "None" THEN Raise(O2, run.exc, run.info)
            ELSE IF was_serving
            THEN verify_connection(sql_server(O2), conn, output)
            ELSE Return(O2, output)
        ran(O1, run) ==
            finish(Event([O1 EXCEPT !.repo = run.repo, !.ran = Append(@, args),
                                    !.exits = Append(@, run.exit)], "_execute"),
                   run, <<run.ret>>)
        stopped(O1) == ran(O1, _execute(args, O1.repo, nd))
    IN  stopped(IF was_serving THEN sql_server_stop(O) ELSE O)

\* execute that runs the command without stopping the server it holds
execute_unstopped(O, args, restart_server, nd, conn) ==
    LET was_serving == restart_server /\ O.server # "None"
        finish(O2, run, output) ==
            IF run.exc # "None" THEN Raise(O2, run.exc, run.info)
            ELSE IF was_serving
            THEN verify_connection(sql_server(O2), conn, output)
            ELSE Return(O2, output)
        ran(O1, run) ==
            finish(Event([O1 EXCEPT !.repo = run.repo, !.ran = Append(@, args),
                                    !.exits = Append(@, run.exit)], "_execute"),
                   run, Split(run.ret, "\n"))
        stopped(O1) == ran(O1, _execute(args, O1.repo, nd))
    IN  stopped(O)

\* Dolt.execute; conn is the connection attempt that succeeds, 0 when none does
execute(O, args, restart_server, nd, conn) ==
    LET was_serving == restart_server /\ O.server # "None"
        finish(O2, run, output) ==
            IF run.exc # "None" THEN Raise(O2, run.exc, run.info)
            ELSE IF was_serving
            THEN verify_connection(sql_server(O2), conn, output)
            ELSE Return(O2, output)
        ran(O1, run) ==
            finish(Event([O1 EXCEPT !.repo = run.repo, !.ran = Append(@, args),
                                    !.exits = Append(@, run.exit)], "_execute"),
                   run, Split(run.ret, "\n"))
        stopped(O1) == ran(O1, _execute(args, O1.repo, nd))
    IN  stopped(IF was_serving THEN sql_server_stop(O) ELSE O)

(***************************************************************************)
(* Dolt.status: the parse of the status text into a DoltStatus.  A dict is *)
(* a function from its keys; a later assignment to a key replaces the      *)
(* earlier one.                                                            *)
(***************************************************************************)
DoltStatus(is_clean, modified_tables, added_tables) ==
    [is_clean |-> is_clean, modified_tables |-> modified_tables,
     added_tables |-> added_tables]

DictSet(d, k, v) == (k :> v) @@ d

RECURSIVE StatusLoop(_, _, _, _, _)
StatusLoop(output, i, is_staged, changes, new_tables) ==
    IF i > Len(output) THEN DoltStatus(FALSE, changes, new_tables)
    ELSE LET _line == LStrip(output[i])
         IN  IF StartsWith(_line, "Changes to be committed")
             THEN StatusLoop(output, i + 1, TRUE, changes, new_tables)
             ELSE IF StartsWith(_line, "Changes not staged for commit")
             THEN StatusLoop(output, i + 1, FALSE, changes, new_tables)
             ELSE IF StartsWith(_line, "Untracked files")
             THEN StatusLoop(output, i + 1, FALSE, changes, new_tables)
             ELSE IF StartsWith(_line, "modified")
             THEN StatusLoop(output, i + 1, is_staged,
                             DictSet(changes, LStrip(Split(_line, ":")[2]), is_staged),
                             new_tables)
             ELSE IF StartsWith(_line, "new table")
             THEN StatusLoop(output, i + 1, is_staged, changes,
                             DictSet(new_tables, LStrip(Split(_line, ":")[2]), is_staged))
             ELSE StatusLoop(output, i + 1, is_staged, changes, new_tables)

ParseStatus(output) ==
    IF Contains(Join(output, "\n"), "clean")
    THEN DoltStatus(TRUE, <<>>, <<>>)
    ELSE StatusLoop(output, 1, FALSE, <<>>, <<>>)

status(O, conn) ==
    LET parsed(call) == IF call.exc # "None" THEN call
                        ELSE Return(call.o, ParseStatus(call.ret))
    IN  parsed(execute(O, <<"status">>, FALSE, 0, conn))

(***************************************************************************)
(* Dolt.add, Dolt.reset, Dolt.commit.  None and the empty string are both  *)
(* written "": the code only tests their truth value.  An exception of the *)
(* command propagates out of the method.                                   *)
(***************************************************************************)
Returning(call, ret) == IF call.exc # "None" THEN call ELSE Return(call.o, ret)

add(O, to_add, conn) ==
    LET then_status(call) == IF call.exc # "None" THEN call
                             ELSE status(call.o, conn)
    IN  then_status(execute(O, <<"add">> \o to_add, TRUE, 0, conn))

\* reset without its assertion: both flags go to the binary
reset_unasserted(O, to_reset, hard, soft) ==
    LET args == <<"reset">>
                \o (IF hard THEN <<"--hard">> ELSE <<>>)
                \o (IF soft THEN <<"--soft">> ELSE <<>>)
    IN  Returning(execute(O, args \o to_reset, FALSE, 0, 0), <<>>)

\* reset that passes --hard whatever the flags are
reset_always_hard(O, to_reset, hard, soft) ==
    IF hard /\ soft THEN Raise(O, "AssertionError", NoInfo)
    ELSE Returning(execute(O, <<"reset", "--hard">> \o to_reset, FALSE, 0, 0), <<>>)

reset(O, to_reset, hard, soft) ==
    IF hard /\ soft THEN Raise(O, "AssertionError", NoInfo)
    ELSE LET args == <<"reset">>
                     \o (IF hard THEN <<"--hard">> ELSE <<>>)
                     \o (IF soft THEN <<"--soft">> ELSE <<>>)
         IN  Returning(execute(O, args \o to_reset, FALSE, 0, 0), <<>>)

\* commit that passes --allow-empty whatever allow_empty is
commit_always_allow_empty(O, message, allow_empty, date, conn) ==
    Returning(execute(O, <<"commit", "-m", message, "--allow-empty">>, TRUE, 0, conn), <<>>)

commit(O, message, allow_empty, date, conn) ==
    LET args == <<"commit", "-m", message>>
                \o (IF allow_empty THEN <<"--allow-empty">> ELSE <<>>)
                \o (IF date # "" THEN <<"--date", date>> ELSE <<>>)
    IN  Returning(execute(O, args, TRUE, 0, conn), <<>>)

(***************************************************************************)
(* Dolt._get_branches and Dolt.branch.                                     *)
(***************************************************************************)
\* str.split() with no argument: the words between runs of white space
RECURSIVE SplitWS(_)
SplitWS(s) ==
    LET t == LStrip(s)
        ends == {i \in 1..Len(t) : IsSpace(SubSeq(t, i, i))}
        e == IF ends = {} THEN Len(t) + 1
             ELSE CHOOSE i \in ends : \A j \in ends : i <= j
    IN  IF Len(t) = 0 THEN <<>>
        ELSE <<SubSeq(t, 1, e - 1)>> \o SplitWS(SubSeq(t, e, Len(t)))

DoltBranch(name, commit_id) == [name |-> name, commit_id |-> commit_id]

RECURSIVE BranchLoop(_, _, _, _)
BranchLoop(output, i, active_branch, branches) ==
    IF i > Len(output) \/ output[i] = ""
    THEN <<active_branch, branches>>
    ELSE LET line == output[i]
             words == IF StartsWith(line, "*")
                      THEN SplitWS(SubSeq(LStrip(line), 2, Len(LStrip(line))))
                      ELSE SplitWS(LStrip(line))
             b == DoltBranch(words[1], words[2])
         IN  IF StartsWith(line, "*")
             THEN BranchLoop(output, i + 1, b, Append(branches, b))
             ELSE BranchLoop(output, i + 1, active_branch, Append(branches, b))

_get_branches(O) ==
    LET parsed(call) == IF call.exc # "None" THEN call
                        ELSE Return(call.o, BranchLoop(call.ret, 1, "None", <<>>))
    IN  parsed(execute(O, <<"branch", "--list", "--verbose">>, FALSE, 0, 0))

\* list.extend(str) appends the string's characters one by one
Chars(s) == [i \in 1..Len(s) |-> SubSeq(s, i, i)]

Count(flags) == Cardinality({i \in DOMAIN flags : flags[i]})

branch(O, branch_name, start_point, new_branch, force, delete, copy, move) ==
    LET args == <<"branch">> \o (IF force THEN <<"--force">> ELSE <<>>)
        create == args \o <<branch_name>>
                  \o (IF start_point # "" THEN <<start_point>> ELSE <<>>)
        \* the creation runs through _execute, not through self.execute
        direct(made) ==
            [o |-> [O EXCEPT !.repo = made.repo, !.ran = Append(@, create),
                             !.exits = Append(@, made.exit)],
             exc |-> made.exc, info |-> made.info, ret |-> <<>>]
        then_list(call) == IF call.exc # "None" THEN call ELSE _get_branches(call.o)
    IN  IF Count(<<delete, copy, move>>) > 1 THEN Raise(O, "AssertionError", NoInfo)
        ELSE IF ~(branch_name # "" \/ delete \/ copy \/ move)
        THEN IF force THEN Raise(O, "AssertionError", NoInfo)
             ELSE then_list(Return(O, <<>>))
        ELSE IF branch_name # "" /\ ~(delete /\ copy /\ move)
        THEN then_list(direct(_execute(create, O.repo, 0)))
        ELSE IF copy
        THEN IF new_branch = "" THEN Raise(O, "AssertionError", NoInfo)
             ELSE then_list(execute(O, args \o <<"--copy">> \o Chars(new_branch),
                                    FALSE, 0, 0))
        ELSE IF delete
        THEN \* branch_name is empty here: the assertion on it fails
             Raise(O, "AssertionError", NoInfo)
        ELSE IF new_branch = "" THEN Raise(O, "AssertionError", NoInfo)
             ELSE then_list(execute(O, args \o <<"--move">> \o Chars(new_branch),
                                    FALSE, 0, 0))

(***************************************************************************)
(* Dolt.checkout.                                                          *)
(***************************************************************************)
\* checkout with the test of checkout_branch lost: -b is always passed
checkout_always_b(O, branch_, tables, checkout_branch, start_point, conn) ==
    LET args == <<"checkout">>
                \o (IF branch_ # ""
                    THEN <<"-b">> \o (IF start_point # "" THEN <<start_point>> ELSE <<>>)
                         \o <<branch_>>
                    ELSE <<>>)
                \o (IF Len(tables) > 0 THEN <<Join(tables, " ")>> ELSE <<>>)
    IN  IF branch_ # "" /\ Len(tables) > 0 THEN Raise(O, "AssertionError", NoInfo)
        ELSE Returning(execute(O, args, TRUE, 0, conn), <<>>)

checkout(O, branch_, tables, checkout_branch, start_point, conn) ==
    LET args == <<"checkout">>
                \o (IF branch_ # ""
                    THEN (IF checkout_branch
                          THEN <<"-b">> \o (IF start_point # "" THEN <<start_point>>
                                            ELSE <<>>)
                          ELSE <<>>)
                         \o <<branch_>>
                    ELSE <<>>)
                \o (IF Len(tables) > 0 THEN <<Join(tables, " ")>> ELSE <<>>)
    IN  IF branch_ # "" /\ Len(tables) > 0 THEN Raise(O, "AssertionError", NoInfo)
        ELSE Returning(execute(O, args, TRUE, 0, conn), <<>>)

(***************************************************************************)
(* Dolt.log: the parse of the log text into an OrderedDict of DoltCommit,  *)
(* kept as the sequence of its values in insertion order.                  *)
(***************************************************************************)
DoltCommit(ref, ts, author) == [hash |-> ref, ts |-> ts, author |-> author]

\* a dict that puts a new key first
ODSet_first(od, value) ==
    IF \E i \in 1..Len(od) : od[i].hash = value.hash
    THEN [i \in 1..Len(od) |-> IF od[i].hash = value.hash THEN value ELSE od[i]]
    ELSE <<value>> \o od

\* result[key] = value: a key already present keeps its place
ODSet(od, value) ==
    IF \E i \in 1..Len(od) : od[i].hash = value.hash
    THEN [i \in 1..Len(od) |-> IF od[i].hash = value.hash THEN value ELSE od[i]]
    ELSE Append(od, value)

NoDate == -2

\* datetime.strptime of the date text
Dates == 0..(MaxCommits + MaxLogCommits)
ParseDate(s) ==
    IF \E k \in Dates : ToString(k) = s
    THEN CHOOSE k \in Dates : ToString(k) = s
    ELSE -1

RECURSIVE LogLoop(_, _, _, _, _, _)
LogLoop(output, i, current_commit, author, date, result) ==
    IF i > Len(output) THEN [exc |-> "None", result |-> result]
    ELSE LET line == output[i]
         IN  IF StartsWith(line, "commit")
             THEN LogLoop(output, i + 1, Split(line, " ")[2], author, date, result)
             ELSE IF StartsWith(line, "Author")
             THEN LogLoop(output, i + 1, current_commit,
                          LStrip(Split(line, ":")[2]), date, result)
             ELSE IF StartsWith(line, "Date")
             THEN IF ParseDate(LStrip(Split1(line, ":")[2])) = -1
                  THEN [exc |-> "ValueError", result |-> result]
                  ELSE LogLoop(output, i + 1, current_commit, author,
                               ParseDate(LStrip(Split1(line, ":")[2])), result)
             ELSE IF current_commit # "None"
             THEN IF date = NoDate \/ author = "None"
                  THEN [exc |-> "AssertionError", result |-> result]
                  ELSE LogLoop(output, i + 1, "None", author, date,
                               ODSet(result, DoltCommit(current_commit, date, author)))
             ELSE LogLoop(output, i + 1, current_commit, author, date, result)

\* number is an int: the argument list then holds an int and Popen refuses it
log(O, number, commit_) ==
    LET built(O1, parsed) == IF parsed.exc # "None" THEN Raise(O1, parsed.exc, NoInfo)
                             ELSE Return(O1, parsed.result)
        read(call) == IF call.exc # "None" THEN call
                      ELSE built(call.o, LogLoop(call.ret, 1, "None", "None", NoDate, <<>>))
    IN  IF commit_ # "" THEN Raise(O, "NotImplementedError", NoInfo)
        ELSE IF number # 0 THEN Raise(O, "TypeError", NoInfo)
        ELSE read(execute(O, <<"log">>, FALSE, 0, 0))

(***************************************************************************)
(* Dolt.table_import, Dolt.schema_import, Dolt.diff, Dolt.config,          *)
(* Dolt.remote.  Parameters left at their defaults by every caller of the  *)
(* model are not listed.                                                   *)
(***************************************************************************)
table_import(O, table, filename, create_table, update_table, force, pk, replace_table) ==
    LET args == <<"table", "import">>
                \o (IF create_table THEN <<"--create">> ELSE <<>>)
                \o (IF update_table THEN <<"--update">> ELSE <<>>)
                \o (IF replace_table THEN <<"--replace">> ELSE <<>>)
                \o (IF Len(pk) > 0 THEN <<"--pks", Join(pk, ",")>> ELSE <<>>)
                \o (IF force THEN <<"--force">> ELSE <<>>)
                \o <<table, filename>>
    IN  IF Count(<<create_table, update_table, replace_table>>) # 1
        THEN Raise(O, "AssertionError", NoInfo)
        ELSE IF (create_table \/ replace_table) /\ Len(pk) = 0
        THEN Raise(O, "AssertionError", NoInfo)
        ELSE Returning(execute(O, args, FALSE, 0, 0), <<>>)

schema_import(O, table, filename, create, update, replace, pks, nd) ==
    LET args == <<"schema", "import">>
                \o (IF create THEN <<"--create">> ELSE <<>>)
                \o (IF update THEN <<"--update">> ELSE <<>>)
                \o (IF replace THEN <<"--replace">> ELSE <<>>)
                \o (IF Len(pks) > 0 THEN <<"--pks", Join(pks, ",")>> ELSE <<>>)
                \o <<table, filename>>
    IN  IF Count(<<create, update, replace>>) # 1
        THEN Raise(O, "AssertionError", NoInfo)
        ELSE IF (create \/ replace) /\ Len(pks) = 0
        THEN Raise(O, "AssertionError", NoInfo)
        ELSE Returning(execute(O, args, FALSE, nd, 0), <<>>)

diff(O, data, schema, summary, sql, nd) ==
    LET args == <<"diff">>
                \o (IF summary THEN <<"--summary">> ELSE <<>>)
                \o (IF schema THEN Chars("--schema") ELSE <<>>)
                \o (IF sql THEN <<"--sql">> ELSE <<>>)
    IN  IF Count(<<data, schema, summary>>) > 1
        THEN Raise(O, "AssertionError", NoInfo)
        ELSE Returning(execute(O, args, FALSE, nd, 0), <<>>)

\* the call's last line applies str.split to the list execute returns
config(O, name, value, add_, list_, get_, unset_, nd) ==
    LET args == <<"config">>
                \o (IF add_ THEN <<"--add", "--name", name, "--value", value>> ELSE <<>>)
                \o (IF list_ THEN <<"--list">> ELSE <<>>)
                \o (IF get_ THEN <<"--get", "--name", name>> ELSE <<>>)
                \o (IF unset_ THEN <<"--unset", "--name", name>> ELSE <<>>)
        split(call) == IF call.exc # "None" THEN call
                       ELSE Raise(call.o, "AttributeError", NoInfo)
    IN  IF Count(<<add_, list_, get_, unset_>>) # 1
        THEN Raise(O, "AssertionError", NoInfo)
        ELSE IF add_ /\ ~(name # "" /\ value # "")
        THEN Raise(O, "AssertionError", NoInfo)
        ELSE IF list_ /\ (name # "" \/ value # "")
        THEN Raise(O, "AssertionError", NoInfo)
        ELSE IF (get_ \/ unset_) /\ ~(name # "" /\ value = "")
        THEN Raise(O, "AssertionError", NoInfo)
        ELSE split(execute(O, args, FALSE, nd, 0))

DoltRemote(name, url) == [name |-> name, url |-> url]

RECURSIVE RemoteLoop(_, _, _)
RemoteLoop(output, i, remotes) ==
    IF i > Len(output) \/ output[i] = "" THEN remotes
    ELSE LET words == SplitWS(LStrip(output[i]))
         IN  RemoteLoop(output, i + 1, Append(remotes, DoltRemote(words[1], words[2])))

remote(O, add_, name, url, remove, nd) ==
    LET args == <<"remote", "--verbose">>
        parsed(call) == IF call.exc # "None" THEN call
                        ELSE Return(call.o, RemoteLoop(call.ret, 1, <<>>))
        change == args
                  \o (IF remove THEN <<"remove", name>> ELSE <<>>)
                  \o (IF add_ THEN <<"add", name, url>> ELSE <<>>)
    IN  IF ~(add_ \/ remove) THEN parsed(execute(O, args, FALSE, nd, 0))
        ELSE IF remove /\ add_ THEN Raise(O, "AssertionError", NoInfo)
        ELSE IF remove /\ name = "" THEN Raise(O, "AssertionError", NoInfo)
        ELSE IF add_ /\ ~(name # "" /\ url # "") THEN Raise(O, "AssertionError", NoInfo)
        ELSE Returning(execute(O, change, FALSE, nd, 0), <<>>)

(***************************************************************************)
(* The state machine: one Dolt object on one repository directory; every   *)
(* action is one call of a method of the object.                           *)
(***************************************************************************)
NoFlags == {}
Set(names, flags) == {names[i] : i \in {j \in DOMAIN flags : flags[j]}}

\* the record of a call: the method, the flags set, its other arguments, and
\* the outcome
Call(op, flags, arg, out) ==
    [op |-> op, flags |-> flags, arg |-> arg, exc |-> out.exc, info |-> out.info,
     ret |-> out.ret, ran |-> out.o.ran, exits |-> out.o.exits,
     attempts |-> out.o.attempts, up |-> out.o.up, events |-> out.o.events]

Apply(op, flags, arg, out) ==
    /\ Len(out.o.repo.commits) > Len(commits) => Len(out.o.repo.commits) <= MaxCommits
    /\ out.o.orphans <= MaxOrphans
    /\ commits' = out.o.repo.commits
    /\ refs' = out.o.repo.refs
    /\ head' = out.o.repo.head
    /\ working' = out.o.repo.working
    /\ staged' = out.o.repo.staged
    /\ server' = out.o.server
    /\ orphans' = out.o.orphans
    /\ fs' = fs
    /\ last' = Call(op, flags, arg, out)

\* the paths Dolt.init is tried on; the working directory exists
Paths == {"cwd", "a", "b"}
getcwd == "cwd"
NoDirs == [p \in Paths |-> IF p = getcwd THEN "dir" ELSE "absent"]

\* Dolt(repo_dir) is constructed on a repository that exists: commit 1 is
\* the tip of master at that time (the history behind it is left out), with
\* the table "t" committed or not, and the working set is clean.
InitRoots == {r \in Roots : r["t"] <= 1 /\ r["cleaned"] = 0}

Init ==
    /\ \E r \in InitRoots :
        /\ commits = <<[root |-> r, parents |-> <<>>]>>
        /\ working = r
        /\ staged = r
    /\ refs = [b \in Branches |-> IF b = "master" THEN 1 ELSE 0]
    /\ head = "master"
    /\ server = "None"
    /\ orphans = 0
    /\ fs = NoDirs
    /\ last = Call("init", NoFlags, <<>>, Return(Obj, <<>>))

\* the outcome of the connection attempts is read only when a held server
\* is restarted: the first attempt connects, a later one does, or none does
ConnChoices == IF server = "None" THEN {0} ELSE {0, 1, Tries}
AllConnChoices == IF server = "None" THEN {0} ELSE 0..(Tries + 1)

(***************************************************************************)
(* The calls, each over the sets its arguments are drawn from.             *)
(***************************************************************************)
StatusCall == Apply("status", NoFlags, <<>>, status(Obj, 0))

AddCall(lists) == \E ts \in lists, conn \in ConnChoices :
    Apply("add", NoFlags, ts, add(Obj, ts, conn))

ResetCall(lists, modes) == \E ts \in lists, m \in modes :
    Apply("reset", Set(<<"hard", "soft">>, m), ts, reset(Obj, ts, m[1], m[2]))

CommitCall == \E allow_empty \in BOOLEAN, conn \in ConnChoices :
    Apply("commit", Set(<<"allow_empty">>, <<allow_empty>>), <<>>,
          commit(Obj, "x", allow_empty, "", conn))

\* m is <<delete, copy, move>>
BranchCall(names, starts, forces, modes) ==
    \E branch_name \in names, force \in forces, m \in modes :
    \E start_point \in IF branch_name = "" THEN {""} ELSE starts,
       new_branch \in IF m[2] \/ m[3] THEN {"", "exp"} ELSE {""} :
        Apply("branch",
              Set(<<"force", "delete", "copy", "move">>, <<force>> \o m),
              <<branch_name, start_point, new_branch>>,
              branch(Obj, branch_name, start_point, new_branch, force,
                     m[1], m[2], m[3]))

\* a target is <<branch, tables>>
CheckoutCall(targets, news, starts) ==
    \E target \in targets, checkout_branch \in news, conn \in ConnChoices :
    \E start_point \in IF target[1] # "" /\ checkout_branch THEN starts ELSE {""} :
        Apply("checkout",
              Set(<<"branch", "tables", "checkout_branch">>,
                  <<target[1] # "", Len(target[2]) > 0, checkout_branch>>),
              <<target[1], target[2], start_point>>,
              checkout(Obj, target[1], target[2], checkout_branch, start_point, conn))

LogCall(numbers, revs) == \E number \in numbers, commit_ \in revs :
    Apply("log", NoFlags, <<number, commit_>>, log(Obj, number, commit_))

\* m is <<create_table, update_table, replace_table>>
TableImportCall(tables, files, modes, pks, forces) ==
    \E table \in tables, filename \in files, m \in modes, pk \in pks :
    \E force \in IF m = <<TRUE, FALSE, FALSE>> THEN forces ELSE {FALSE} :
        Apply("table_import",
              Set(<<"create_table", "update_table", "replace_table">>, m),
              <<table, filename>>,
              table_import(Obj, table, filename, m[1], m[2], force, pk, m[3]))

Bool2 == BOOLEAN \X BOOLEAN
Bool3 == BOOLEAN \X BOOLEAN \X BOOLEAN

(***************************************************************************)
(* Spec: the repository operations of an object that runs no server,      *)
(* called with well-formed arguments on the table "t".                     *)
(***************************************************************************)
Add == AddCall({<<"t">>})
Reset == ResetCall({<<"t">>}, {<<TRUE, FALSE>>, <<FALSE, TRUE>>})
Commit == CommitCall
Branch == BranchCall({"exp"}, {""}, {FALSE}, {<<FALSE, FALSE, FALSE>>})
Checkout ==
    CheckoutCall({<<b, <<>> >> : b \in Branches} \cup {<<"", <<"t">> >>}, {FALSE}, {""})
TableImport ==
    TableImportCall({"t"}, Files, {<<TRUE, FALSE, FALSE>>, <<FALSE, TRUE, FALSE>>},
                    {<<"id">>}, {FALSE})

Next ==
    \/ Add
    \/ Reset
    \/ Commit
    \/ Branch
    \/ Checkout
    \/ TableImport

Spec == Init /\ [][Next]_vars

(***************************************************************************)
(* SpecCalls: the calls with every combination of their flags, on an       *)
(* object that may hold a server; no commit is made.                       *)
(***************************************************************************)
ResetAny == ResetCall({<<"t">>}, Bool2)
BranchAny == BranchCall({"", "exp"}, {""}, BOOLEAN, Bool3)
CheckoutAny == CheckoutCall({"", "exp"} \X {<<>>, <<"t">>}, BOOLEAN, {"", "master"})
TableImportAny ==
    TableImportCall({"t"}, {FileName(1)}, Bool3, {<<>>, <<"id">>}, BOOLEAN)

SchemaImport ==
    \E m \in Bool3, pks \in {<<>>, <<"id">>} :
    \E nd \in IF Count(m) = 1 THEN {0, 1} ELSE {0} :
        Apply("schema_import", Set(<<"create", "update", "replace">>, m), <<>>,
              schema_import(Obj, "t", FileName(1), m[1], m[2], m[3], pks, nd))

Diff ==
    \E m \in Bool3, sql \in BOOLEAN :
    \E nd \in IF Count(m) <= 1 THEN {0, 1} ELSE {0} :
        Apply("diff", Set(<<"data", "schema", "summary">>, m), <<>>,
              diff(Obj, m[1], m[2], m[3], sql, nd))

Config ==
    \E m \in BOOLEAN \X BOOLEAN \X BOOLEAN \X BOOLEAN :
    \E name \in IF Count(m) = 1 THEN {"", "user.name"} ELSE {""},
       value \in IF Count(m) = 1 THEN {"", "v"} ELSE {""},
       nd \in IF Count(m) = 1 THEN {0, 1} ELSE {0} :
        Apply("config", Set(<<"add", "list", "get", "unset">>, m), <<name, value>>,
              config(Obj, name, value, m[1], m[2], m[3], m[4], nd))

Remote ==
    \E m \in Bool2, name \in {"", "origin"}, url \in {"", "u"} :
    \E nd \in IF Count(m) <= 1 THEN {0, 1} ELSE {0} :
        Apply("remote", Set(<<"add", "remove">>, m), <<name, url>>,
              remote(Obj, m[1], name, url, m[2], nd))

SqlServer == Apply("sql_server", NoFlags, <<>>, Return(sql_server(Obj), <<>>))

SqlServerStop ==
    Apply("sql_server_stop", NoFlags, <<>>, Return(sql_server_stop(Obj), <<>>))

NextCalls ==
    \/ ResetAny
    \/ BranchAny
    \/ CheckoutAny
    \/ TableImportAny
    \/ SchemaImport
    \/ Diff
    \/ Config
    \/ Remote
    \/ SqlServer
    \/ SqlServerStop

SpecCalls == Init /\ [][NextCalls]_vars

(***************************************************************************)
(* SpecServer: Dolt.execute called directly, with and without a server     *)
(* held, on a repository whose table "t" can be imported.                  *)
(***************************************************************************)
ExecuteArgs == {<<"status">>, <<"add", "t">>, <<"version">>}

Execute ==
    \E args \in ExecuteArgs, restart_server \in BOOLEAN :
    \E conn \in IF restart_server THEN AllConnChoices ELSE {0},
       nd \in IF args = <<"version">> THEN {0, 1} ELSE {0} :
        Apply("execute", Set(<<"restart_server">>, <<restart_server>>), args,
              execute(Obj, args, restart_server, nd, conn))

GetEngine ==
    \E host \in {"", "db"}, port \in {0, DEFAULT_PORT + 1} :
        Apply("get_engine", NoFlags, <<host, port>>, get_engine(Obj, host, port))

NextServer ==
    \/ Execute
    \/ GetEngine
    \/ SqlServer
    \/ SqlServerStop
    \/ TableImport

SpecServer == Init /\ [][NextServer]_vars

(***************************************************************************)
(* The specification of status: Dolt(repo_dir) is constructed on a         *)
(* repository whose tip, staging area and working set hold any roots over  *)
(* the tables, and status is called on it.  No operation of the wrapper    *)
(* modelled here removes a table: a table of the tip is staged, and a      *)
(* staged table is in the working set.                                     *)
(***************************************************************************)
InitStatus ==
    /\ \E tip \in Roots, s \in Roots, w \in Roots :
        /\ \A t \in Tables : (tip[t] # 0 => s[t] # 0) /\ (s[t] # 0 => w[t] # 0)
        /\ commits = <<[root |-> tip, parents |-> <<>>]>>
        /\ staged = s
        /\ working = w
    /\ refs = [b \in Branches |-> IF b = "master" THEN 1 ELSE 0]
    /\ head = "master"
    /\ server = "None"
    /\ orphans = 0
    /\ fs = NoDirs
    /\ last = Call("init", NoFlags, <<>>, Return(Obj, <<>>))

Status == StatusCall

NextStatus == Status

SpecStatus == InitStatus /\ [][NextStatus]_vars

(***************************************************************************)
(* The specification of log: Dolt(repo_dir) is constructed on a repository *)
(* with any history of up to MaxLogCommits commits, merges among them (a   *)
(* commit is made after its parents), master at any of them, and log is    *)
(* called on it.                                                           *)
(***************************************************************************)
ParentsBelow(n) ==
    {<<q>> : q \in 1..(n - 1)}
    \cup {pair \in (1..(n - 1)) \X (1..(n - 1)) : pair[1] # pair[2]}

RECURSIVE Histories(_)
Histories(n) ==
    IF n = 1 THEN {<<[root |-> EmptyRoot, parents |-> <<>>]>>}
    ELSE {Append(h, [root |-> EmptyRoot, parents |-> ps]) :
             h \in Histories(n - 1), ps \in ParentsBelow(n)}

InitLog ==
    /\ \E n \in 1..MaxLogCommits :
        \E h \in Histories(n), tip \in 1..n :
            /\ commits = h
            /\ refs = [b \in Branches |-> IF b = "master" THEN tip ELSE 0]
    /\ working = EmptyRoot
    /\ staged = EmptyRoot
    /\ head = "master"
    /\ server = "None"
    /\ orphans = 0
    /\ fs = NoDirs
    /\ last = Call("init", NoFlags, <<>>, Return(Obj, <<>>))

Log == LogCall({0, 1}, {"", CommitName(1)})

NextLog == Log

SpecLog == InitLog /\ [][NextLog]_vars

(***************************************************************************)
(* The operations that restart the server, on an object that starts and    *)
(* stops one.                                                              *)
(***************************************************************************)
NextRestart ==
    \/ Add
    \/ Commit
    \/ Checkout
    \/ TableImport
    \/ SqlServer
    \/ SqlServerStop

SpecRestart == Init /\ [][NextRestart]_vars

(***************************************************************************)
(* Dolt.init on the paths of the file system.                              *)
(***************************************************************************)
\* 'dolt init' in a directory: makes it a repository, refused where one is
Dolt_init(d) ==
    IF d = "repo" THEN [exit |-> 1, d |-> d] ELSE [exit |-> 0, d |-> "repo"]

\* Dolt.__init__
Dolt(repo_dir) == [repo_dir |-> repo_dir, server |-> "None"]

\* Dolt.init; repo_dir "" stands for None.  Nothing creates the directory:
\* Popen raises FileNotFoundError for a cwd that does not exist.
init(F, repo_dir) ==
    LET dir == IF repo_dir = "" THEN getcwd ELSE repo_dir
        communicate(proc) ==
            IF proc.exit # 0
            THEN [fs |-> F, exc |-> "DoltException", ret |-> <<>>,
                  ran |-> <<<<"init">>>>, exits |-> <<proc.exit>>]
            ELSE [fs |-> [F EXCEPT ![dir] = proc.d], exc |-> "None", ret |-> Dolt(dir),
                  ran |-> <<<<"init">>>>, exits |-> <<proc.exit>>]
    IN  IF F[dir] = "absent"
        THEN [fs |-> F, exc |-> "FileNotFoundError", ret |-> <<>>,
              ran |-> <<>>, exits |-> <<>>]
        ELSE communicate(Dolt_init(F[dir]))

InitCall(out, repo_dir) ==
    /\ fs' = out.fs
    /\ last' = [op |-> "Dolt.init", flags |-> NoFlags, arg |-> <<repo_dir>>,
                exc |-> out.exc, info |-> NoInfo, ret |-> out.ret, ran |-> out.ran,
                exits |-> out.exits, attempts |-> 0, up |-> 0, events |-> <<>>]
    /\ UNCHANGED <<commits, refs, head, working, staged, server, orphans>>

DoltInit == \E repo_dir \in {""} \cup Paths : InitCall(init(fs, repo_dir), repo_dir)

InitDirs ==
    /\ \E r \in InitRoots :
        /\ commits = <<[root |-> r, parents |-> <<>>]>>
        /\ working = r
        /\ staged = r
    /\ refs = [b \in Branches |-> IF b = "master" THEN 1 ELSE 0]
    /\ head = "master"
    /\ server = "None"
    /\ orphans = 0
    /\ fs \in {f \in [Paths -> {"absent", "dir", "repo"}] : f[getcwd] # "absent"}
    /\ last = Call("init", NoFlags, <<>>, Return(Obj, <<>>))

NextInit == DoltInit

SpecInit == InitDirs /\ [][NextInit]_vars

TypeOK ==
    /\ Len(commits) \in 1..MaxCommits
    /\ \A c \in 1..Len(commits) : commits[c].root \in Roots
    /\ refs \in [Branches -> 0..MaxCommits]
    /\ head \in Branches /\ refs[head] # 0
    /\ working \in Roots
    /\ staged \in Roots
    /\ server \in {"None", "Popen"}
    /\ orphans \in 0..MaxOrphans
    /\ fs \in [Paths -> {"absent", "dir", "repo"}]

(***************************************************************************)
(* Branch isolation.                                                       *)
(***************************************************************************)
Returned(c) == c.exc = "None"

\* a checkout of a branch by name, without -b
PlainCheckout(c) ==
    /\ c.op = "checkout"
    /\ c.arg[1] # ""
    /\ "checkout_branch" \notin c.flags

\* C1: a commit that succeeds moves the current branch's ref to a new commit
\* holding the staged tables and leaves every other branch, and every commit
\* made before, as it was; a checkout of a branch that returns makes that
\* existing branch the current one and, from a clean working set, makes the
\* working tables those of that branch's tip.
C1_BranchIsolation ==
    [][/\ SubSeq(commits', 1, Len(commits)) = commits
       /\ (last'.op = "commit" /\ Returned(last')) =>
            /\ head' = head
            /\ refs'[head] = Len(commits) + 1
            /\ Len(commits') = Len(commits) + 1
            /\ commits'[refs'[head]].root = staged
            /\ \A b \in Branches : b # head => refs'[b] = refs[b]
       /\ (PlainCheckout(last') /\ Returned(last')) =>
            /\ refs[last'.arg[1]] # 0
            /\ head' = last'.arg[1]
            /\ refs' = refs
            /\ IsClean(Repo) =>
                    /\ working' = commits[refs[head']].root
                    /\ staged' = working'
      ]_vars

\* back on master after a commit on exp: master shows the rows of its own tip,
\* exp's tip holds other rows
C1_Witness ==
    /\ PlainCheckout(last) /\ Returned(last)
    /\ head = "master"
    /\ refs["exp"] # 0
    /\ commits[refs["master"]].root["t"] = 1
    /\ commits[refs["exp"]].root["t"] = 2
    /\ commits[refs["exp"]].parents = <<refs["master"]>>
    /\ working["t"] = 1

(***************************************************************************)
(* C2.                                                                     *)
(***************************************************************************)
NothingStaged == staged = TipRoot(Repo)

\* C2: a commit without allow_empty, called when nothing is staged (the
\* staged root is the root of the tip), makes the binary exit non-zero and
\* the wrapper raise DoltException; no commit is created and no branch ref
\* moves.
C2_EmptyCommitFails ==
    [][(last'.op = "commit" /\ "allow_empty" \notin last'.flags /\ NothingStaged) =>
          /\ last'.exc = "DoltException"
          /\ Len(last'.exits) = 1 /\ last'.exits[1] # 0
          /\ last'.info.exitcode # 0
          /\ commits' = commits
          /\ refs' = refs
      ]_vars

\* a refused commit, with an edit in working that was never staged
C2_Witness ==
    /\ last.op = "commit" /\ "allow_empty" \notin last.flags
    /\ last.exc = "DoltException"
    /\ NothingStaged
    /\ working["t"] # staged["t"]

(***************************************************************************)
(* C4.                                                                     *)
(***************************************************************************)
\* the tables with an uncommitted change that differ between the tip and
\* the tip of the branch b
Conflicting(b) ==
    {t \in Tables : Dirty(Repo, t) /\ commits[refs[b]].root[t] # TipRoot(Repo)[t]}

SoftReset(c) == c.op = "reset" /\ c.flags = {"soft"} /\ c.arg = <<"t">>

\* C5: reset(["t"], soft=True) called right after add(["t"]) returns, leaves
\* staged["t"] equal to the tip's "t" and working as it was before the reset.
C5_AddThenSoftReset ==
    [][(last.op = "add" /\ last.arg = <<"t">> /\ Returned(last) /\ SoftReset(last')) =>
          /\ Returned(last')
          /\ staged'["t"] = TipRoot(Repo)["t"]
          /\ working' = working
          /\ UNCHANGED <<commits, refs, head>>
      ]_vars

\* after a soft reset the edit of "t" is in working and no longer staged
C5_Witness ==
    /\ SoftReset(last) /\ Returned(last)
    /\ working["t"] # TipRoot(Repo)["t"]
    /\ staged["t"] = TipRoot(Repo)["t"]

(***************************************************************************)
(* C6.                                                                     *)
(***************************************************************************)
Among(c, names) == Cardinality(c.flags \cap names)

\* the calls whose flags exclude one another
Exclusive(c) ==
    \/ c.op = "reset" /\ Among(c, {"hard", "soft"}) = 2
    \/ c.op = "branch" /\ Among(c, {"delete", "copy", "move"}) > 1
    \/ c.op = "diff" /\ Among(c, {"data", "schema", "summary"}) > 1
    \/ c.op = "config" /\ Among(c, {"add", "list", "get", "unset"}) # 1
    \/ c.op = "schema_import" /\ Among(c, {"create", "update", "replace"}) # 1
    \/ c.op = "table_import"
         /\ Among(c, {"create_table", "update_table", "replace_table"}) # 1
    \/ c.op = "remote" /\ Among(c, {"add", "remove"}) = 2
    \/ c.op = "checkout" /\ Among(c, {"branch", "tables"}) = 2

\* C6: a call given flags that exclude one another raises AssertionError
\* before any command is run: the repository, the server handle and the
\* server processes are as they were before the call.
C6_ExclusiveFlagsRejected ==
    [][Exclusive(last') =>
          /\ last'.exc = "AssertionError"
          /\ last'.ran = <<>>
          /\ UNCHANGED <<commits, refs, head, working, staged, server, orphans>>
      ]_vars

\* a checkout given a branch and tables, on an object that holds a server
C6_Witness ==
    /\ last.op = "checkout" /\ Exclusive(last)
    /\ last.exc = "AssertionError"
    /\ server = "Popen"
    /\ working # TipRoot(Repo)

(***************************************************************************)
(* C7 and C8.                                                              *)
(***************************************************************************)
StatusReturned == last.op = "status" /\ Returned(last)

\* C7: is_clean of the result of status() is True exactly when working,
\* staged and the tip agree on every table, and when it is True both
\* modified_tables and added_tables are empty.
C7_IsCleanIffClean ==
    StatusReturned =>
        /\ last.ret.is_clean <=> IsClean(Repo)
        /\ last.ret.is_clean =>
              DOMAIN last.ret.modified_tables = {} /\ DOMAIN last.ret.added_tables = {}

\* status() of a repository whose only change is to the table "cleaned"
C7_Witness ==
    /\ StatusReturned
    /\ working["cleaned"] # TipRoot(Repo)["cleaned"]
    /\ working["t"] = TipRoot(Repo)["t"] /\ staged["t"] = TipRoot(Repo)["t"]
    /\ last.ret.is_clean

\* the tables whose change is staged
StagedChange(t) == staged[t] # TipRoot(Repo)[t]

\* C8: in the result of status() of a repository it does not report clean,
\* a table whose change is staged (it is listed under "Changes to be
\* committed") maps to True, in modified_tables when the tip has the table
\* and in added_tables when it has not, also when the table has a further
\* change that is not staged; and no other table maps to True.
C8_FlagIsStaged ==
    (StatusReturned /\ ~last.ret.is_clean) =>
        \A t \in Tables :
            /\ (StagedChange(t) /\ TipRoot(Repo)[t] # 0) =>
                  t \in DOMAIN last.ret.modified_tables /\ last.ret.modified_tables[t]
            /\ (StagedChange(t) /\ TipRoot(Repo)[t] = 0) =>
                  t \in DOMAIN last.ret.added_tables /\ last.ret.added_tables[t]
            /\ (t \in DOMAIN last.ret.modified_tables /\ last.ret.modified_tables[t]) =>
                  StagedChange(t)
            /\ (t \in DOMAIN last.ret.added_tables /\ last.ret.added_tables[t]) =>
                  StagedChange(t)

\* status() of a repository where "t" has a staged change and a further
\* change that is not staged
C8_Witness ==
    /\ StatusReturned
    /\ TipRoot(Repo)["t"] # 0
    /\ StagedChange("t") /\ working["t"] # staged["t"] /\ staged["t"] # 0
    /\ "t" \in DOMAIN last.ret.modified_tables
    /\ ~last.ret.modified_tables["t"]

(***************************************************************************)
(* C9.                                                                     *)
(***************************************************************************)
LogDefault == last.op = "log" /\ last.arg = <<0, "">>

Keys(od) == [i \in 1..Len(od) |-> od[i].hash]

\* the commits named on the "commit" lines of a log text, in line order
CommitLines(text) ==
    LET lines == SelectSeq(Split(text, "\n"), LAMBDA l : StartsWith(l, "commit "))
    IN  [i \in 1..Len(lines) |-> SubSeq(lines[i], 8, Len(lines[i]))]

Reachable == {CommitName(c) : c \in Ancestors(commits, TipId(Repo))}

IsParent(k, j) ==
    \E c \in 1..Len(commits), q \in 1..Len(commits) :
        /\ CommitName(c) = j /\ CommitName(q) = k
        /\ q \in Range(commits[c].parents)

\* C9: log() with no number and no commit returns; its entries are the
\* commits reachable from the tip, each once, no parent before a commit it
\* is a parent of, also when merges reconverge, in the order of the
\* "commit" lines of the binary's output.
C9_LogOrder ==
    LogDefault =>
        /\ Returned(last)
        /\ Range(Keys(last.ret)) = Reachable
        /\ Len(last.ret) = Cardinality(Reachable)
        /\ \A i \in 1..Len(last.ret), j \in 1..Len(last.ret) :
              IsParent(Keys(last.ret)[i], Keys(last.ret)[j]) => j < i
        /\ Keys(last.ret) = CommitLines(Dolt_log(Repo).out)

\* log() of a history where two lines of descent from commit 1 meet again
\* in a merge that is the tip
C9_Witness ==
    /\ LogDefault /\ Returned(last)
    /\ Len(commits[TipId(Repo)].parents) = 2
    /\ \A q \in Range(commits[TipId(Repo)].parents) :
          q # 1 /\ 1 \in Ancestors(commits, q)
    /\ Len(last.ret) = Len(commits)

(***************************************************************************)
(* C10.                                                                    *)
(***************************************************************************)
Executed(c) == c.op = "execute" /\ Len(c.exits) = 1

\* the process the call c, made in the current state, has run
ProcOf(c) ==
    LET nd == IF c.exits[1] # 0 THEN 1 ELSE 0
    IN  DoltBinary(<<"dolt">> \o c.arg, Repo, nd)

\* DoltException is raised exactly when the exit code is not zero, and it
\* carries the argument list, stdout, stderr and the exit code
RaisesOnExit(c) ==
    /\ ProcOf(c).exit = c.exits[1]
    /\ (c.exc = "DoltException") <=> (c.exits[1] # 0)
    /\ c.exits[1] # 0 =>
          c.info = [exec_args |-> <<"dolt">> \o c.arg, stdout |-> ProcOf(c).out,
                    stderr |-> ProcOf(c).err, exitcode |-> c.exits[1]]

ReturnsLines(c) == c.exc = "None" /\ c.ret = Split(ProcOf(c).out, "\n")

\* the server held before the call was to be restarted and no connection
\* attempt to the new one succeeded
RestartFailed(c) ==
    /\ "restart_server" \in c.flags /\ server # "None"
    /\ c.exc = "ConnectionError" /\ c.attempts = Tries

\* C10 (as stated): execute raises DoltException exactly when the exit code
\* of the subprocess is not zero, the exception carrying the argument list,
\* stdout, stderr and the exit code; when the exit code is zero no
\* exception is raised and the lines of stdout are returned.
C10_ZeroExitReturns ==
    [][Executed(last') =>
          /\ RaisesOnExit(last')
          /\ last'.exits[1] = 0 => ReturnsLines(last')
      ]_vars

\* C10 (amended): as above, but with exit code zero execute returns the
\* lines of stdout unless it was to restart a held server and none of the
\* Tries connection attempts succeeded; the connection error then
\* propagates.
C10_ZeroExitReturnsUnlessRestartFails ==
    [][Executed(last') =>
          /\ RaisesOnExit(last')
          /\ last'.exits[1] = 0 => (ReturnsLines(last') \/ RestartFailed(last'))
          /\ (last'.exits[1] = 0 /\ ~("restart_server" \in last'.flags /\ server # "None"))
                => ReturnsLines(last')
      ]_vars

\* an execute whose command exited with zero and which raised all the same
C10_Witness ==
    /\ Executed(last) /\ last.exits[1] = 0
    /\ last.exc = "ConnectionError"
    /\ last.attempts = Tries
    /\ server = "Popen"

(***************************************************************************)
(* C11.                                                                    *)
(***************************************************************************)
\* a call of branch with a branch name and exactly the one mode given
BranchMode(c, mode) ==
    /\ c.op = "branch" /\ c.arg[1] # ""
    /\ c.flags \cap {"delete", "copy", "move"} = {mode}

ForceArg(c) == IF "force" \in c.flags THEN <<"--force">> ELSE <<>>

\* the command that creates the branch named in the call
CreationOf(c) == <<"branch">> \o ForceArg(c) \o <<c.arg[1]>>

\* C11: branch(branch_name=b, delete=True) issues 'branch [--force] --delete b'
\* and branch with copy=True or move=True and a branch name issues a --copy
\* or --move command; none of them issues the creation command 'branch b'.
C11_DeleteCopyMoveIssued ==
    /\ BranchMode(last, "delete") =>
          /\ Len(last.ran) > 0
          /\ last.ran[1] = <<"branch">> \o ForceArg(last) \o <<"--delete", last.arg[1]>>
    /\ BranchMode(last, "copy") =>
          Len(last.ran) > 0 /\ "--copy" \in Range(last.ran[1])
    /\ BranchMode(last, "move") =>
          Len(last.ran) > 0 /\ "--move" \in Range(last.ran[1])
    /\ \A mode \in {"delete", "copy", "move"} :
          BranchMode(last, mode) => CreationOf(last) \notin Range(last.ran)

\* branch("exp", delete=True) has returned and the branch exp exists
C11_Witness ==
    /\ BranchMode(last, "delete") /\ last.arg[1] = "exp"
    /\ Returned(last)
    /\ refs["exp"] # 0
    /\ CreationOf(last) \in Range(last.ran)

(***************************************************************************)
(* C12.                                                                    *)
(***************************************************************************)
\* a call checkout(branch=b, checkout_branch=True, start_point=s)
NewBranchAt(c) ==
    /\ c.op = "checkout" /\ "checkout_branch" \in c.flags
    /\ c.arg[1] # "" /\ c.arg[2] = <<>> /\ c.arg[3] # ""

\* C12: checkout(branch=b, checkout_branch=True, start_point=s) issues
\* 'checkout -b b s', the new branch name first and the start point second,
\* and when it returns the head is the branch b, at the commit of s.
C12_NewBranchThenStartPoint ==
    NewBranchAt(last) =>
        /\ Len(last.ran) > 0
        /\ last.ran[1] = <<"checkout", "-b", last.arg[1], last.arg[3]>>
        /\ Returned(last) => head = last.arg[1] /\ refs[last.arg[1]] = refs[last.arg[3]]

\* checkout(branch="exp", checkout_branch=True, start_point="master") has run
\* its command while no branch exp existed
C12_Witness ==
    /\ NewBranchAt(last) /\ last.arg[1] = "exp" /\ last.arg[3] = "master"
    /\ refs["exp"] = 0
    /\ Len(last.ran) > 0
    /\ last.exc = "DoltException"

(***************************************************************************)
(* C13.                                                                    *)
(***************************************************************************)
\* C13: get_engine raises when no server is held and returns an engine only
\* while a server is held.
C13_EngineOnlyWhileServing ==
    last.op = "get_engine" =>
        /\ server = "None" => last.exc # "None"
        /\ Returned(last) => server # "None"

\* get_engine has been called while no server is held
C13_Witness ==
    /\ last.op = "get_engine"
    /\ server = "None"
    /\ Returned(last) /\ last.ret.host = DEFAULT_HOST

(***************************************************************************)
(* C14.                                                                    *)
(***************************************************************************)
Killed == <<<<"kill", "None">>>>

\* C14: sql_server_stop never raises; with a server held it kills that
\* process and clears the handle, leaving no process behind; with none held it
\* changes nothing; a second call in a row changes nothing the first did not.
C14_StopKillsAndClears ==
    [][last'.op = "sql_server_stop" =>
        /\ Returned(last')
        /\ server' = "None"
        /\ orphans' = orphans
        /\ UNCHANGED <<commits, refs, head, working, staged>>
        /\ last'.events = (IF server # "None" THEN Killed ELSE <<>>)
        /\ sql_server_stop(sql_server_stop(Obj)) = sql_server_stop(Obj)]_vars

\* sql_server_stop has killed the server that was held
C14_Witness ==
    /\ last.op = "sql_server_stop"
    /\ last.events = Killed
    /\ server = "None"

(***************************************************************************)
(* C16.                                                                    *)
(***************************************************************************)
\* the directory a call of Dolt.init is about
InitDir(c) == IF c.arg[1] = "" THEN getcwd ELSE c.arg[1]

\* C16: Dolt.init on a path that does not exist, or on a directory that
\* exists and holds no repository, returns a Dolt object whose repo_dir() is
\* that path, and the path is a directory holding a repository afterwards.
C16_InitCreatesDirectory ==
    [][(last'.op = "Dolt.init" /\ fs[InitDir(last')] \in {"absent", "dir"}) =>
        /\ Returned(last')
        /\ fs'[InitDir(last')] = "repo"
        /\ last'.ret.repo_dir = InitDir(last')]_vars

\* Dolt.init("a") has been called where no path a exists
C16_Witness ==
    /\ last.op = "Dolt.init" /\ last.arg = <<"a">>
    /\ fs["a"] = "absent"
    /\ last.exc = "FileNotFoundError"

(***************************************************************************)
(* C17.                                                                    *)
(***************************************************************************)
\* the process events of a restart, in order: the held server is killed, the
\* command runs with no server held, a server is started, the connection to it
\* is verified
RestartOrder ==
    <<<<"kill", "None">>, <<"_execute", "None">>,
      <<"Popen", "Popen">>, <<"verify_connection", "Popen">>>>

\* C17: an execute with restart_server=True and a server held that returns
\* has killed the server, run the command while none was held, started a new
\* server and verified the connection, in this order, and holds a server on
\* return; an execute with no server held or with restart_server False only
\* runs the command: it stops and starts no server.
C17_RestartOrder ==
    [][last'.op = "execute" =>
        IF "restart_server" \in last'.flags /\ server # "None"
        THEN Returned(last') =>
                /\ last'.events = RestartOrder
                /\ server' # "None"
                /\ orphans' = orphans
                /\ last'.ret = Split(ProcOf(last').out, "\n")
        ELSE /\ last'.events = <<<<"_execute", server>>>>
             /\ server' = server
             /\ orphans' = orphans]_vars

\* an execute that restarted the server has returned
C17_Witness ==
    /\ last.op = "execute" /\ "restart_server" \in last.flags
    /\ Returned(last)
    /\ last.events = RestartOrder
    /\ server = "Popen"

(***************************************************************************)
(* C18.                                                                    *)
(***************************************************************************)
Restarting == {"add", "commit", "checkout"}

\* C18: when a server is held before add, commit or checkout, a server is
\* held again when the call finishes, whether it returns or raises
\* DoltException.
C18_ServerHeldAgain ==
    [][(/\ last'.op \in Restarting
        /\ server # "None"
        /\ last'.exc \in {"None", "DoltException"}) => server' # "None"]_vars

\* a commit with a server held has raised DoltException after the kill
C18_Witness ==
    /\ last.op = "commit"
    /\ last.exc = "DoltException"
    /\ last.events = <<<<"kill", "None">>, <<"_execute", "None">>>>
    /\ server = "None"

(***************************************************************************)
(* C19.                                                                    *)
(***************************************************************************)
\* the server processes started and not killed
LiveServers == orphans + (IF server # "None" THEN 1 ELSE 0)

\* C19: every server process started and not killed is the one held in
\* self.server: at most one is alive and none runs without a handle.
C19_NoOrphanServer == orphans = 0 /\ LiveServers <= 1

\* sql_server has been called while a server was held
C19_Witness ==
    /\ last.op = "sql_server"
    /\ last.events = <<<<"Popen", "Popen">>>>
    /\ server = "Popen"
    /\ orphans = 1

(***************************************************************************)
(* C20.                                                                    *)
(***************************************************************************)
\* C20: when execute has run its command with exit code 0 and restarts the
\* server it held, verify_connection makes at most 10 attempts: if one of the
\* first 10 succeeds, execute returns right after it; if none does, execute
\* raises the connection error after the 10th; either way the new server is
\* held.
C20_AtMostTenAttempts ==
    [][(/\ last'.op = "execute" /\ "restart_server" \in last'.flags
        /\ server # "None"
        /\ last'.exits = <<0>>) =>
        /\ last'.events = RestartOrder
        /\ last'.attempts \in 1..Tries
        /\ server' # "None"
        /\ IF last'.up \in 1..Tries
           THEN Returned(last') /\ last'.attempts = last'.up
           ELSE last'.exc = "ConnectionError" /\ last'.attempts = Tries]_vars

\* a restart whose server accepted connections from the third attempt on
C20_Witness ==
    /\ last.op = "execute"
    /\ last.events = RestartOrder
    /\ last.up = 3 /\ last.attempts = 3
    /\ Returned(last)
    /\ server = "Popen"

=============================================================================
